---- MODULE Spec2Model ----
(***************************************************************************)
(* Model of the view-layer logic of the wire-webapp fragment:              *)
(*   - ModalsViewModel (src/src/script/view_model/ModalsViewModel.js):     *)
(*     the modal queue and its four-state lifecycle;                       *)
(*   - MentionSuggestionList (src/src/script/page/message-list/            *)
(*     MentionSuggestions/MentionSuggestions.tsx): the keyboard-navigable  *)
(*     suggestion popup;                                                   *)
(*   - Conversations (src/unnamed/part_000): the conversations sidebar     *)
(*     with its tabs, its filter and its effects.                          *)
(* Every public method of ModalsViewModel is one action that models the    *)
(* whole handler, including the callbacks it invokes and the showModal     *)
(* calls those callbacks make.  The effects of a React component run       *)
(* after the render that declares them has been committed, from a task of  *)
(* the scheduler or before the next render; events can arrive in between.  *)
(***************************************************************************)
EXTENDS Naturals, Integers, Sequences, FiniteSets, TLC

VARIABLES
    \* ---- ModalsViewModel fields (constructor, lines 64-75) ----
    state,          \* this.state()
    content,        \* this.content()
    queue,          \* this.queue
    inputValue,     \* this.inputValue()
    optionChecked,  \* this.optionChecked()
    bindingsApplied, \* ko.applyBindings has bound the element 'modals'
    \* ---- observation of the manager's behaviour ----
    arrivals,       \* the number of showModal calls made so far
    dequeued,       \* the requests taken from the queue, in order, and what became of each
    calls,          \* callbacks of the displayed request invoked since it was displayed
    lastOp,         \* the handler that ran last
    \* ---- MentionSuggestionList ----
    mounted,        \* the component is mounted
    targetInput,    \* document.querySelector(targetInputSelector): "input" or "null"
    suggestions,    \* the suggestions prop
    selectedSuggestionIndex, \* useState(0)
    listeners,      \* the component's keydown listeners attached to targetInput
    effect,         \* the closure of the effect that ran last (its cleanup is to run)
    effectPending,  \* React has still to run the effects of the committed render
    lastEvent,      \* the last event handled and what it caused
    \* ---- Conversations (sidebar) and the objects it is given ----
    sidebarMounted,      \* the component is mounted
    currentTab,          \* useState(initialTab)
    conversationsFilter, \* useState('')
    activeConversation,  \* conversationState.activeConversation: 0 (none) or a conversation
    visibleConversations, \* conversationState.visibleConversations
    renderedActive,      \* activeConversation as the committed render has seen it
    renderedCount,       \* conversations.length as the committed render has seen it
    renderPending,       \* an observable has changed and the component has still to render
    pendingEffects,      \* the effects React has still to run
    viewFolders,         \* the saved preference PROPERTIES_TYPE.INTERFACE.VIEW_FOLDERS
    listState,           \* what listViewModel.switchList has selected
    contentState,        \* what contentViewModel.switchContent has selected
    currentView,         \* responsiveView of useAppMainState
    openFolders,         \* the folders useFolderState holds as open
    subscriptions,       \* callbacks registered with amplify and with conversationLabelRepository
    folderEffect,        \* the cleanup the EXPAND_FOLDER effect has returned
    sidebarEvent         \* the last sidebar event that did something and the external calls it made

modalVars == <<state, content, queue, inputValue, optionChecked,
               bindingsApplied, arrivals, dequeued, calls, lastOp>>
mentionVars == <<mounted, targetInput, suggestions, selectedSuggestionIndex,
                 listeners, effect, effectPending, lastEvent>>
sidebarVars == <<sidebarMounted, currentTab, conversationsFilter, activeConversation,
                 visibleConversations, renderedActive, renderedCount,
                 renderPending, pendingEffects,
                 viewFolders, listState, contentState, currentView, openFolders,
                 subscriptions, folderEffect, sidebarEvent>>
\* what a change of an observable of conversationState leaves alone
componentVars == <<sidebarMounted, currentTab, conversationsFilter, renderedActive,
                   renderedCount, pendingEffects, viewFolders, listState,
                   contentState, currentView, openFolders, subscriptions,
                   folderEffect>>
vars == <<modalVars, mentionVars, sidebarVars>>

-----------------------------------------------------------------------------
(* Bounds *)

\* number of showModal calls in a behaviour (top-level and from callbacks)
MaxRequests == 3
\* callback invocations recorded for one displayed request before the
\* button handlers stop being explored
MaxCalls == 2
\* length of the suggestions list
MaxSuggestions == 3

-----------------------------------------------------------------------------
(* ModalsViewModel: constants *)

\* JavaScript undefined, false and null in places where a string is expected
Undefined == "<undefined>"
False == "<false>"
True == "<true>"
Null == "<null>"

States == [CLOSING |-> "ModalState.CLOSING",
           NONE    |-> "ModalState.NONE",
           OPEN    |-> "ModalState.OPEN",
           READY   |-> "ModalState.READY"]

TYPE == [ACCOUNT_NEW_DEVICES           |-> "modal-account-new-devices",
         ACCOUNT_READ_RECEIPTS_CHANGED |-> "modal-account-read-receipts-changed",
         ACKNOWLEDGE                   |-> "modal-template-acknowledge",
         CONFIRM                       |-> "modal-template-confirm",
         INPUT                         |-> "modal-template-input",
         OPTION                        |-> "modal-template-option",
         SESSION_RESET                 |-> "modal-session-reset"]

\* Object.values(ModalsViewModel.TYPE)
TypeValues == {TYPE[k] : k \in DOMAIN TYPE}

\* a type string that is not a value of TYPE
UnsupportedType == "modal-unsupported"

noop == "noop"

defaultContent ==
    [actionFn         |-> noop,
     actionText       |-> "",
     checkboxLabel    |-> "",
     closeFn          |-> noop,
     currentType      |-> Null,
     inputPlaceholder |-> "",
     messageHtml      |-> "",
     messageText      |-> "",
     modalUie         |-> "",
     onBgClick        |-> noop,
     secondaryFn      |-> noop,
     secondaryText    |-> "",
     titleText        |-> "",
     req              |-> 0]

\* t(key): the localized string of a key
t(key) == "t(" \o key \o ")"

\* JavaScript truthiness of a string-or-primitive value
Truthy(v) == v \notin {Undefined, False, Null, ""}

-----------------------------------------------------------------------------
(* ModalsViewModel: the requests callers pass to showModal *)

\* options.text = {action, option, input, htmlMessage, message, secondary, title}
NoText ==
    [action |-> Undefined, option |-> Undefined, input |-> Undefined,
     htmlMessage |-> Undefined, message |-> Undefined,
     secondary |-> Undefined, title |-> Undefined]
FullText ==
    [action |-> "Ok", option |-> "Remember", input |-> "Name",
     htmlMessage |-> Undefined, message |-> "Sure?",
     secondary |-> "Cancel", title |-> "Title"]
HtmlText ==
    [action |-> Undefined, option |-> Undefined, input |-> Undefined,
     htmlMessage |-> "<b>Sure?</b>", message |-> "Sure?",
     secondary |-> "", title |-> Undefined]

\* options.data: undefined, a boolean, or an array of devices
NoData == [isArray |-> FALSE, items |-> <<>>, value |-> Undefined]
BoolData(b) == [isArray |-> FALSE, items |-> <<>>, value |-> b]
ArrayData(list) == [isArray |-> TRUE, items |-> list, value |-> "<array>"]
\* device.time: the instant "YYYY-MM-DDTHH:mm:00Z", an ISO 8601 string in UTC,
\* held as its fields; a string moment cannot parse has valid = FALSE
Time(year, month, day, hour, minute) ==
    [valid |-> TRUE, year |-> year, month |-> month, day |-> day,
     hour |-> hour, minute |-> minute]
DeviceList == <<[time |-> Time(2019, 3, 1, 10, 0), model |-> "Chrome"],
                [time |-> Time(2019, 12, 24, 18, 30), model |-> "Desktop"]>>

\* The local zone of the machine, in minutes east of UTC: UTC, Asia/Tokyo
\* and America/Phoenix (zones without daylight saving time).
UTC == 0
Zones == {UTC, 540, -420}

\* What a caller's callback does: "fn" only returns, "fnShowModal" requests
\* another modal by calling showModal(NestedType) before it returns.
Callbacks == {"fn", "fnShowModal"}
NestedType == TYPE.ACKNOWLEDGE

\* showModal(type) without options, or with options = {}
NoOptions ==
    [action |-> Undefined, close |-> Undefined, secondary |-> Undefined,
     data |-> NoData, preventClose |-> Undefined, text |-> NoText]

\* The (type, options) pairs callers pass to showModal.
RequestInputs ==
    { <<TYPE.CONFIRM, [NoOptions EXCEPT !.action = "fn", !.close = "fn",
                          !.secondary = "fn", !.preventClose = True,
                          !.text = FullText]>>,
      <<TYPE.INPUT, [NoOptions EXCEPT !.action = "fn", !.close = "fnShowModal",
                          !.preventClose = False, !.text = HtmlText]>>,
      <<TYPE.OPTION, [NoOptions EXCEPT !.action = "fnShowModal", !.close = "fn",
                          !.secondary = "fnShowModal", !.text = FullText]>>,
      <<TYPE.ACCOUNT_NEW_DEVICES, [NoOptions EXCEPT !.data = ArrayData(DeviceList)]>>,
      <<TYPE.ACCOUNT_NEW_DEVICES, NoOptions>>,
      <<TYPE.ACCOUNT_READ_RECEIPTS_CHANGED, [NoOptions EXCEPT !.data = BoolData(False)]>>,
      <<TYPE.SESSION_RESET, NoOptions>>,
      <<UnsupportedType, [NoOptions EXCEPT !.action = "fn", !.close = "fn"]>> }

\* values the user can type into the modal's input field
InputValues == {"", "abc"}

-----------------------------------------------------------------------------
(* ModalsViewModel: _showModal's content construction (lines 113-174) *)

\* destructuring default: `name = dflt` applies when the property is undefined
Default(v, dflt) == IF v = Undefined THEN dflt ELSE v

\* the Gregorian calendar
IsLeapYear(year) == (year % 4 = 0 /\ year % 100 # 0) \/ year % 400 = 0
DaysInMonth(year, month) ==
    CASE month \in {4, 6, 9, 11} -> 30
      [] month = 2 -> IF IsLeapYear(year) THEN 29 ELSE 28
      [] OTHER -> 31

\* the day after and the day before a date
NextDay(d) ==
    IF d.day < DaysInMonth(d.year, d.month) THEN [d EXCEPT !.day = @ + 1]
    ELSE IF d.month < 12 THEN [d EXCEPT !.day = 1, !.month = @ + 1]
    ELSE [d EXCEPT !.day = 1, !.month = 1, !.year = @ + 1]
PreviousDay(d) ==
    IF d.day > 1 THEN [d EXCEPT !.day = @ - 1]
    ELSE IF d.month > 1
    THEN [d EXCEPT !.day = DaysInMonth(d.year, d.month - 1), !.month = @ - 1]
    ELSE [d EXCEPT !.day = 31, !.month = 12, !.year = @ - 1]

\* moment(time): the instant in the local zone of the machine, offset
\* minutes east of UTC (less than a day)
LocalTime(time, offset) ==
    LET minutes == time.hour * 60 + time.minute + offset
        date    == IF minutes < 0 THEN PreviousDay(time)
                   ELSE IF minutes >= 1440 THEN NextDay(time)
                   ELSE time
        ofDay   == (minutes + 1440) % 1440
    IN [date EXCEPT !.hour = ofDay \div 60, !.minute = ofDay % 60]

\* the tokens of moment's format in the locale 'en'
MonthNames == <<"January", "February", "March", "April", "May", "June", "July",
                "August", "September", "October", "November", "December">>
\* Do: the day of the month with its ordinal suffix
Ordinal(n) ==
    ToString(n) \o (IF (n % 100) \div 10 = 1 THEN "th"
                    ELSE CASE n % 10 = 1 -> "st"
                           [] n % 10 = 2 -> "nd"
                           [] n % 10 = 3 -> "rd"
                           [] OTHER -> "th")
\* HH, mm: two digits
TwoDigits(n) == IF n < 10 THEN "0" \o ToString(n) ELSE ToString(n)

\* moment(device.time).format('MMMM Do YYYY, HH:mm') (line 138): the time is
\* rendered in the local zone of the machine
FormatTime(time, zone) ==
    IF ~time.valid THEN "Invalid date"
    ELSE LET local == LocalTime(time, zone)
         IN MonthNames[local.month] \o " " \o Ordinal(local.day) \o " "
                \o ToString(local.year) \o ", "
                \o TwoDigits(local.hour) \o ":" \o TwoDigits(local.minute)

\* the times of the devices callers pass, and line 138 applied to each of
\* them in each zone
DeviceTimes == {DeviceList[i].time : i \in DOMAIN DeviceList}
FormattedTime == [time \in DeviceTimes, zone \in Zones |-> FormatTime(time, zone)]

\* one entry of deviceList (lines 137-141)
DeviceHtml(device, zone) ==
    "<div>" \o FormattedTime[device.time, zone] \o " - UTC</div><div>"
        \o t("modalAccountNewDevicesFrom") \o " " \o device.model \o "</div>"

RECURSIVE Join(_)
\* array.join('')
Join(strs) == IF strs = <<>> THEN "" ELSE Head(strs) \o Join(Tail(strs))

\* z.util.URLUtil.buildSupportUrl(z.config.SUPPORT.FORM.BUG)
supportLink == "https://support.wire.com/hc/requests/new"

\* data.map(...) of ACCOUNT_NEW_DEVICES throws a TypeError unless data is an array
Throws(type, options) ==
    type = TYPE.ACCOUNT_NEW_DEVICES /\ ~options.data.isArray

\* the content object of lines 114-128, before the switch on the type
BaseContent(id, type, options) ==
    LET text == options.text IN
    [actionFn         |-> Default(options.action, noop),
     actionText       |-> text.action,
     checkboxLabel    |-> text.option,
     closeFn          |-> Default(options.close, noop),
     currentType      |-> type,
     inputPlaceholder |-> text.input,
     messageHtml      |-> text.htmlMessage,
     messageText      |-> text.message,
     modalUie         |-> type,
     onBgClick        |-> IF Truthy(Default(options.preventClose, False))
                          THEN noop ELSE "hide",
     secondaryFn      |-> Default(options.secondary, noop),
     secondaryText    |-> text.secondary,
     titleText        |-> text.title,
     req              |-> id]

\* the content after the switch of lines 130-174, built on a machine in zone
BuildContent(id, type, options, zone) ==
    LET text == options.text
        data == options.data
        c    == BaseContent(id, type, options)
    IN CASE type = TYPE.ACCOUNT_NEW_DEVICES ->
              [c EXCEPT !.titleText = t("modalAccountNewDevicesHeadline"),
                        !.actionText = t("modalAcknowledgeAction"),
                        !.secondaryText = t("modalAccountNewDevicesSecondary"),
                        !.messageText = t("modalAccountNewDevicesMessage"),
                        !.messageHtml =
                            "<div class=\"modal__content__device-list\">"
                            \o Join([i \in 1..Len(data.items) |->
                                         DeviceHtml(data.items[i], zone)])
                            \o "</div>"]
         [] type = TYPE.ACCOUNT_READ_RECEIPTS_CHANGED ->
              [c EXCEPT !.actionText = t("modalAcknowledgeAction"),
                        !.titleText =
                            IF data.isArray \/ Truthy(data.value)
                            THEN t("modalAccountReadReceiptsChangedOnHeadline")
                            ELSE t("modalAccountReadReceiptsChangedOffHeadline"),
                        !.messageText = t("modalAccountReadReceiptsChangedMessage")]
         [] type = TYPE.ACKNOWLEDGE ->
              [c EXCEPT !.actionText = IF Truthy(text.action) THEN text.action
                                       ELSE t("modalAcknowledgeAction"),
                        !.titleText = IF Truthy(text.title) THEN text.title
                                      ELSE t("modalAcknowledgeHeadline"),
                        !.messageText = IF Truthy(text.htmlMessage) THEN False
                                        ELSE text.message]
         [] type = TYPE.CONFIRM ->
              [c EXCEPT !.secondaryText = t("modalConfirmSecondary")]
         [] type \in {TYPE.INPUT, TYPE.OPTION} ->
              [c EXCEPT !.secondaryText = IF text.secondary # Undefined
                                          THEN text.secondary
                                          ELSE t("modalOptionSecondary")]
         [] type = TYPE.SESSION_RESET ->
              [c EXCEPT !.titleText = t("modalSessionResetHeadline"),
                        !.actionText = t("modalAcknowledgeAction"),
                        !.messageHtml =
                            t("modalSessionResetMessage1") \o "<a href=\"" \o supportLink
                            \o "\"rel=\"nofollow noopener noreferrer\" target=\"_blank\">"
                            \o t("modalSessionResetMessageLink") \o "</a>"
                            \o t("modalSessionResetMessage2")]
         [] OTHER -> c

-----------------------------------------------------------------------------
(* ModalsViewModel: the methods, as functions of the manager's fields *)

\* The manager at the start of a handler that runs on a machine in zone.
\* threw: an exception is propagating; trace: the values the handler has
\* assigned to this.state so far.
MgrIn(zone) ==
    [state |-> state, content |-> content, queue |-> queue, zone |-> zone,
     inputValue |-> inputValue, optionChecked |-> optionChecked,
     bindingsApplied |-> bindingsApplied,
     arrivals |-> arrivals, dequeued |-> dequeued,
     calls |-> calls, threw |-> FALSE, trace |-> <<>>]
Mgr == MgrIn(UTC)

\* The zones in which a handler is run.  The zone is read only by line 138,
\* when the devices of a request are formatted; the one request a handler
\* can pass to _showModal is the oldest of the requests it finds waiting.
HandlerZones(requests) ==
    IF requests # <<>> /\ Head(requests).options.data.items # <<>>
    THEN Zones ELSE {UTC}

\* this.state(value)
SetState(m, value) == [m EXCEPT !.state = value, !.trace = Append(@, value)]

\* _showModal without the validation of the type
_showModal_novalidation(m, id, type, options) ==
    IF Throws(type, options)
    THEN [m EXCEPT !.dequeued = Append(@, [req |-> id, outcome |-> "threw"]),
                   !.threw = TRUE]
    ELSE SetState([m EXCEPT !.content = BuildContent(id, type, options, m.zone),
                            !.dequeued = Append(@, [req |-> id, outcome |-> "shown"]),
                            !.calls = <<>>],
                  States.OPEN)

\* _showModal (lines 108-177); id is the arrival number of the request
_showModal(m, id, type, options) ==
    IF type \notin TypeValues
    THEN \* logger.warn and return
         [m EXCEPT !.dequeued = Append(@, [req |-> id, outcome |-> "unsupported"])]
    ELSE IF Throws(type, options)
    THEN [m EXCEPT !.dequeued = Append(@, [req |-> id, outcome |-> "threw"]),
                   !.threw = TRUE]
    ELSE SetState([m EXCEPT !.content = BuildContent(id, type, options, m.zone),
                            !.dequeued = Append(@, [req |-> id, outcome |-> "shown"]),
                            !.calls = <<>>],
                  States.OPEN)

\* unqueue that takes the newest request: queue.pop() for queue.shift()
unqueue_pop(m) ==
    IF m.state = States.READY /\ Len(m.queue) > 0
    THEN LET request == m.queue[Len(m.queue)]
         IN _showModal([m EXCEPT !.queue = SubSeq(@, 1, Len(@) - 1)],
                       request.id, request.type, request.options)
    ELSE m

\* unqueue without the test of the state
unqueue_anystate(m) ==
    IF Len(m.queue) > 0
    THEN LET request == Head(m.queue)
         IN _showModal([m EXCEPT !.queue = Tail(@)],
                       request.id, request.type, request.options)
    ELSE m

\* unqueue (lines 90-95)
unqueue(m) ==
    IF m.state = States.READY /\ Len(m.queue) > 0
    THEN LET request == Head(m.queue)
         IN _showModal([m EXCEPT !.queue = Tail(@)],
                       request.id, request.type, request.options)
    ELSE m

\* showModal (lines 79-82)
showModal(m, type, options) ==
    unqueue([m EXCEPT !.queue = Append(@, [id |-> m.arrivals + 1,
                                           type |-> type, options |-> options]),
                      !.arrivals = @ + 1])

\* A call of one of the content's callbacks: content().actionFn(...),
\* content().secondaryFn(), content().closeFn().
Invoke(m, slot, args) ==
    LET fn == m.content[slot] IN
    IF fn = noop THEN m
    ELSE LET called == [m EXCEPT !.calls = Append(@, [fn |-> slot,
                                                     req |-> m.content.req,
                                                     state |-> m.state,
                                                     args |-> args])]
         IN IF fn = "fnShowModal" /\ called.arrivals < MaxRequests
            THEN showModal(called, NestedType, NoOptions)
            ELSE called

\* hasInput / hasOption (lines 179-180)
hasInput(m) == m.content.currentType = TYPE.INPUT
hasOption(m) == m.content.currentType = TYPE.OPTION

\* the argument list of actionFn in confirm
ConfirmArgs(m) ==
    IF m.content.currentType = TYPE.OPTION
    THEN <<IF m.optionChecked THEN True ELSE False>>
    ELSE IF m.content.currentType = TYPE.INPUT
    THEN <<"'" \o m.inputValue \o "'">>
    ELSE <<>>

\* confirm (lines 182-190)
confirm(m) == Invoke(m, "actionFn", ConfirmArgs(m))

\* hide that calls the close callback before it sets the state
hide_callfirst(m) ==
    IF m.threw THEN m
    ELSE SetState(Invoke(m, "closeFn", <<>>), States.CLOSING)

\* hide (lines 202-205)
hide(m) ==
    IF m.threw THEN m
    ELSE Invoke(SetState(m, States.CLOSING), "closeFn", <<>>)

\* doAction that hides the modal before it confirms
doAction_hidefirst(m) == confirm(hide(m))

\* doAction (lines 192-195)
doAction(m) == hide(confirm(m))

\* doSecondary (lines 197-200)
doSecondary(m) == hide(Invoke(m, "secondaryFn", <<>>))

\* a background click that hides the modal whatever preventClose was
onBgClick_always(m) == hide(m)

\* content().onBgClick(): noop, or this.hide (line 124)
onBgClick(m) == IF m.content.onBgClick = "hide" THEN hide(m) ELSE m

\* onModalHidden that leaves the input field as it is
onModalHidden_keepinput(m) ==
    unqueue(SetState([m EXCEPT !.content = defaultContent,
                               !.optionChecked = FALSE,
                               !.calls = <<>>],
                     States.READY))

\* onModalHidden (lines 207-213)
onModalHidden(m) ==
    unqueue(SetState([m EXCEPT !.content = defaultContent,
                               !.inputValue = "",
                               !.optionChecked = FALSE,
                               !.calls = <<>>],
                     States.READY))

\* ko.applyBindings(this, document.getElementById(this.elementId)) (line 85):
\* Knockout binds an element once and throws "You cannot apply bindings
\* multiple times to the same element" when the element is bound already
applyBindings(m) ==
    IF m.bindingsApplied THEN [m EXCEPT !.threw = TRUE]
    ELSE [m EXCEPT !.bindingsApplied = TRUE]

\* ready that does not look at the queue
ready_nounqueue(m) ==
    LET applied == applyBindings(m)
    IN IF applied.threw THEN applied ELSE SetState(applied, States.READY)

\* ready (lines 84-88); an exception of line 85 ends the handler
ready(m) ==
    LET applied == applyBindings(m)
    IN IF applied.threw THEN applied
       ELSE unqueue(SetState(applied, States.READY))

-----------------------------------------------------------------------------
(* ModalsViewModel: the state machine *)

\* the fields after a handler has run (also when it ended by an exception:
\* the assignments made before the throw stay)
Commit(name, m) ==
    /\ lastOp' = name
    /\ state' = m.state
    /\ content' = m.content
    /\ queue' = m.queue
    /\ inputValue' = m.inputValue
    /\ optionChecked' = m.optionChecked
    /\ bindingsApplied' = m.bindingsApplied
    /\ arrivals' = m.arrivals
    /\ dequeued' = m.dequeued
    /\ calls' = m.calls

\* constructor (lines 64-75)
ModalInit ==
    /\ state = States.NONE
    /\ content = defaultContent
    /\ queue = <<>>
    /\ inputValue = ""
    /\ optionChecked = FALSE
    /\ bindingsApplied = FALSE
    /\ arrivals = 0
    /\ dequeued = <<>>
    /\ calls = <<>>
    /\ lastOp = "constructor"

\* amplify.publish(WebAppEvents.WARNING.MODAL, type, options) or modals.showModal(...)
ShowModal ==
    /\ arrivals < MaxRequests
    /\ \E input \in RequestInputs :
          \E zone \in HandlerZones(Append(queue, [options |-> input[2]])) :
             Commit("showModal", showModal(MgrIn(zone), input[1], input[2]))
    /\ UNCHANGED <<mentionVars, sidebarVars>>

\* modals.ready(); a call that throws at line 85 changes nothing
Ready ==
    /\ ~applyBindings(Mgr).threw
    /\ \E zone \in HandlerZones(queue) : Commit("ready", ready(MgrIn(zone)))
    /\ UNCHANGED <<mentionVars, sidebarVars>>

\* modals.unqueue(); a call that finds the condition of line 91 false
\* changes nothing
Unqueue ==
    /\ state = States.READY /\ Len(queue) > 0
    /\ \E zone \in HandlerZones(queue) : Commit("unqueue", unqueue(MgrIn(zone)))
    /\ UNCHANGED <<mentionVars, sidebarVars>>

\* modals.confirm()
Confirm ==
    /\ Len(calls) < MaxCalls
    /\ \E zone \in HandlerZones(queue) : Commit("confirm", confirm(MgrIn(zone)))
    /\ UNCHANGED <<mentionVars, sidebarVars>>

\* click on the action button
DoAction ==
    /\ Len(calls) < MaxCalls
    /\ \E zone \in HandlerZones(queue) : Commit("doAction", doAction(MgrIn(zone)))
    /\ UNCHANGED <<mentionVars, sidebarVars>>

\* click on the secondary button
DoSecondary ==
    /\ Len(calls) < MaxCalls
    /\ \E zone \in HandlerZones(queue) : Commit("doSecondary", doSecondary(MgrIn(zone)))
    /\ UNCHANGED <<mentionVars, sidebarVars>>

\* click on the close button, or modals.hide()
Hide ==
    /\ Len(calls) < MaxCalls
    /\ \E zone \in HandlerZones(queue) : Commit("hide", hide(MgrIn(zone)))
    /\ UNCHANGED <<mentionVars, sidebarVars>>

\* click on the modal's background
BgClick ==
    /\ Len(calls) < MaxCalls
    /\ \E zone \in HandlerZones(queue) : Commit("onBgClick", onBgClick(MgrIn(zone)))
    /\ UNCHANGED <<mentionVars, sidebarVars>>

\* the view reports that the close animation has ended
OnModalHidden ==
    /\ \E zone \in HandlerZones(queue) :
          Commit("onModalHidden", onModalHidden(MgrIn(zone)))
    /\ UNCHANGED <<mentionVars, sidebarVars>>

\* the user types into the input field of a displayed INPUT modal
TypeInput ==
    /\ state \in {States.OPEN, States.CLOSING}
    /\ hasInput(Mgr)
    /\ \E v \in InputValues : inputValue' = v
    /\ lastOp' = "inputValue"
    /\ UNCHANGED <<state, content, queue, optionChecked, bindingsApplied,
                   arrivals, dequeued, calls>>
    /\ UNCHANGED <<mentionVars, sidebarVars>>

\* the user toggles the checkbox of a displayed OPTION modal
ToggleOption ==
    /\ state \in {States.OPEN, States.CLOSING}
    /\ hasOption(Mgr)
    /\ optionChecked' = ~optionChecked
    /\ lastOp' = "optionChecked"
    /\ UNCHANGED <<state, content, queue, inputValue, bindingsApplied,
                   arrivals, dequeued, calls>>
    /\ UNCHANGED <<mentionVars, sidebarVars>>

-----------------------------------------------------------------------------
(* MentionSuggestionList *)

\* the user entities that can be suggested (suggestion.id)
Users == 1..MaxSuggestions

\* the values of the suggestions prop: lists of distinct users
SuggestionLists ==
    {l \in UNION {[1..n -> Users] : n \in 0..MaxSuggestions} :
        \A i, j \in DOMAIN l : i # j => l[i] # l[j]}

KEY == [ARROW_UP |-> "ArrowUp", ARROW_DOWN |-> "ArrowDown",
        ENTER |-> "Enter", TAB |-> "Tab"]
\* the keys of keydown events: the four handled keys and two others
Keys == {KEY.ARROW_UP, KEY.ARROW_DOWN, KEY.ENTER, KEY.TAB, "Escape", "a"}

Min(a, b) == IF a < b THEN a ELSE b
Max(a, b) == IF a > b THEN a ELSE b

\* clamp of Util/NumberUtil: the value limited to [min, max]
clamp(value, min, max) == Max(min, Min(max, value))

\* array[index] of JavaScript (index from 0); 0 stands for undefined
At(array, index) == IF index + 1 \in DOMAIN array THEN array[index + 1] ELSE 0

\* the variables an effect run captures (lines 61-98): suggestions and
\* selectedSuggestionIndex of the render the effect belongs to
Closure(sugg, index) == [suggestions |-> sugg, selectedSuggestionIndex |-> index]

\* updateSelectedIndex (lines 62-64): the state updater applied to curr
updateSelectedIndex(closure, curr, delta) ==
    clamp(curr + delta, 0, Len(closure.suggestions) - 1)

\* no event handled yet
NoEvent ==
    [type |-> "none", key |-> "", shiftKey |-> FALSE, index |-> 0,
     defaultPrevented |-> FALSE, propagationStopped |-> FALSE, validated |-> <<>>]

\* moveSelection (lines 67-71); ev.index is the pending selectedSuggestionIndex
moveSelection(closure, ev, delta) ==
    [ev EXCEPT !.index = updateSelectedIndex(closure, @, delta),
               !.defaultPrevented = TRUE,
               !.propagationStopped = TRUE]

\* validateSelection (lines 72-78)
validateSelection(closure, ev) ==
    IF ~ev.shiftKey /\ targetInput # "null"
    THEN [ev EXCEPT !.validated =
                        Append(@, [data |-> At(closure.suggestions,
                                               closure.selectedSuggestionIndex),
                                   element |-> targetInput]),
                    !.defaultPrevented = TRUE,
                    !.propagationStopped = TRUE]
    ELSE ev

\* onInput (lines 66-87): actions[event.key]?.()
onInput(closure, ev) ==
    CASE ev.key = KEY.ARROW_UP   -> moveSelection(closure, ev, 1)
      [] ev.key = KEY.ARROW_DOWN -> moveSelection(closure, ev, -1)
      [] ev.key = KEY.ENTER      -> validateSelection(closure, ev)
      [] ev.key = KEY.TAB        -> validateSelection(closure, ev)
      [] OTHER                   -> ev

RECURSIVE Dispatch(_, _)
\* a keydown event on targetInput runs every attached listener in order
Dispatch(ls, ev) ==
    IF ls = <<>> THEN ev ELSE Dispatch(Tail(ls), onInput(Head(ls), ev))

RECURSIVE Remove(_, _)
\* removeEventListener: the first listener equal to closure leaves the list
Remove(ls, closure) ==
    IF ls = <<>> THEN <<>>
    ELSE IF Head(ls) = closure THEN Tail(ls)
    ELSE <<Head(ls)>> \o Remove(Tail(ls), closure)

\* the cleanup of the previous effect run (lines 93-97)
Cleanup(ls, eff, target) ==
    IF eff # <<>> /\ target # "null" THEN Remove(ls, eff[1]) ELSE ls

\* one run of the effect body (lines 61-92) for a render with (sugg, index):
\* the listener is attached when the list is visible and the input exists
Attach(ls, sugg, index, target) ==
    IF Len(sugg) > 0 /\ target # "null"
    THEN Append(ls, Closure(sugg, index))
    ELSE ls

\* The component as React holds it: the committed render (the suggestions
\* prop and the state selectedSuggestionIndex), the state updates queued for
\* the next render applied to the state (next), the listeners on targetInput
\* and the effect run last.
Component ==
    [mounted |-> mounted, suggestions |-> suggestions,
     index |-> selectedSuggestionIndex, next |-> selectedSuggestionIndex,
     listeners |-> listeners, effect |-> effect, pending |-> effectPending]

\* React runs the passive effect of the committed render (useEffect, lines
\* 61-98), if it has not run yet: the cleanup of the previous run (lines
\* 93-97), then the body - the listener of this render is attached (lines
\* 89-91) and updateSelectedIndex() queues a state update (line 92).  Of an
\* unmounted component only the cleanup runs.
RunEffect(c, target) ==
    IF ~c.pending THEN c
    ELSE IF ~c.mounted
    THEN [c EXCEPT !.listeners = Cleanup(@, c.effect, target),
                   !.effect = <<>>,
                   !.pending = FALSE]
    ELSE LET closure == Closure(c.suggestions, c.index)
         IN [c EXCEPT !.listeners = Attach(Cleanup(@, c.effect, target),
                                           c.suggestions, c.index, target),
                      !.effect = <<closure>>,
                      !.pending = FALSE,
                      !.next = updateSelectedIndex(closure, @, 0)]

\* A render of the component with the suggestions prop sugg (lines 35-60 and
\* 100-125).  Before it renders React runs the effect of the committed
\* render if that is still to run; the render applies the queued state
\* updates and is committed; its own effect runs later, from a task of the
\* scheduler, if a dependency of line 98 has changed: the suggestions array
\* (changed) or selectedSuggestionIndex.
Render(c, sugg, target, changed) ==
    LET flushed == RunEffect(c, target)
    IN [flushed EXCEPT !.suggestions = sugg,
                       !.index = flushed.next,
                       !.pending = changed \/ flushed.next # flushed.index]

\* the fields of the component after an event
Rendered(c, ev) ==
    /\ suggestions' = c.suggestions
    /\ selectedSuggestionIndex' = c.index
    /\ listeners' = c.listeners
    /\ effect' = c.effect
    /\ effectPending' = c.pending
    /\ lastEvent' = ev

\* no component is mounted
MentionIdle ==
    /\ mounted = FALSE
    /\ targetInput = "null"
    /\ suggestions = <<>>
    /\ selectedSuggestionIndex = 0
    /\ listeners = <<>>
    /\ effect = <<>>
    /\ effectPending = FALSE
    /\ lastEvent = NoEvent

\* the component is mounted with some suggestions; targetInputSelector
\* matches an input element or nothing (lines 43-53).  The first render is
\* committed with selectedSuggestionIndex 0; its effect has not run yet.
Mount ==
    /\ ~mounted
    /\ mounted' = TRUE
    /\ \E sugg \in SuggestionLists, target \in {"input", "null"} :
          /\ targetInput' = target
          /\ Rendered([RunEffect(Component, targetInput) EXCEPT
                           !.mounted = TRUE, !.suggestions = sugg,
                           !.index = 0, !.next = 0, !.pending = TRUE],
                      [NoEvent EXCEPT !.type = "mount"])
    /\ UNCHANGED <<modalVars, sidebarVars>>

\* the scheduler's task runs the effects React has still to run; a state
\* update of line 92 that changes selectedSuggestionIndex causes a render
FlushEffects ==
    /\ effectPending
    /\ LET flushed == RunEffect(Component, targetInput)
       IN IF flushed.mounted /\ flushed.next # flushed.index
          THEN Rendered(Render(flushed, suggestions, targetInput, FALSE), lastEvent)
          ELSE Rendered(flushed, lastEvent)
    /\ UNCHANGED <<mounted, targetInput>>
    /\ UNCHANGED <<modalVars, sidebarVars>>

\* the parent passes a new suggestions array
SetSuggestions ==
    /\ mounted
    /\ \E sugg \in SuggestionLists :
          Rendered(Render(Component, sugg, targetInput, TRUE),
                   [NoEvent EXCEPT !.type = "suggestions"])
    /\ UNCHANGED <<mounted, targetInput>>
    /\ UNCHANGED <<modalVars, sidebarVars>>

\* A keydown event is dispatched on the target input: the attached listeners
\* run; a state update that changes selectedSuggestionIndex causes a render
\* (an update that leaves the state as it is causes none, and neither does
\* an update of a component that is unmounted).
KeyDown(key, shiftKey) ==
    /\ targetInput # "null"
    /\ LET ev == Dispatch(listeners,
                          [NoEvent EXCEPT !.type = "keydown", !.key = key,
                                          !.shiftKey = shiftKey,
                                          !.index = selectedSuggestionIndex])
       IN Rendered(IF ~mounted \/ ev.index = selectedSuggestionIndex
                   THEN Component
                   ELSE Render([Component EXCEPT !.next = ev.index],
                               suggestions, targetInput, FALSE),
                   ev)
    /\ UNCHANGED <<mounted, targetInput>>
    /\ UNCHANGED <<modalVars, sidebarVars>>

KeyDownAny == \E key \in Keys, shiftKey \in BOOLEAN : KeyDown(key, shiftKey)

\* the mouse enters the rendered item of suggestions[index] (line 118)
MouseEnter(index) ==
    /\ mounted
    /\ Len(suggestions) > 0
    /\ Rendered(IF index = selectedSuggestionIndex
                THEN Component
                ELSE Render([Component EXCEPT !.next = index],
                            suggestions, targetInput, FALSE),
                [NoEvent EXCEPT !.type = "mouseenter", !.index = index])
    /\ UNCHANGED <<mounted, targetInput>>
    /\ UNCHANGED <<modalVars, sidebarVars>>

MouseEnterAny == \E index \in 0..(Len(suggestions) - 1) : MouseEnter(index)

\* a click on the rendered item of suggestions[index] (lines 114-117)
SuggestionClick ==
    /\ mounted
    /\ \E index \in 0..(Len(suggestions) - 1) :
          lastEvent' = [NoEvent EXCEPT !.type = "click",
                                       !.index = selectedSuggestionIndex,
                                       !.validated = <<[data |-> At(suggestions, index),
                                                        element |-> targetInput]>>]
    /\ UNCHANGED <<mounted, targetInput, suggestions, selectedSuggestionIndex,
                   listeners, effect, effectPending>>
    /\ UNCHANGED <<modalVars, sidebarVars>>

\* The component is removed; the input element stays in the document.  The
\* effect of the committed render runs first if it is still to run.  The
\* cleanup of the effect run last is left to the scheduler's task (React 17
\* and later, deferred) or runs at once (React 16).
Unmount ==
    /\ mounted
    /\ mounted' = FALSE
    /\ \E deferred \in BOOLEAN :
          LET flushed   == RunEffect(Component, targetInput)
              unmounted == [flushed EXCEPT !.mounted = FALSE, !.suggestions = <<>>,
                                           !.index = 0, !.next = 0,
                                           !.pending = flushed.effect # <<>>]
          IN Rendered(IF deferred THEN unmounted
                      ELSE RunEffect(unmounted, targetInput),
                      [NoEvent EXCEPT !.type = "unmount"])
    /\ UNCHANGED targetInput
    /\ UNCHANGED <<modalVars, sidebarVars>>

-----------------------------------------------------------------------------
(* Conversations: the sidebar component (src/unnamed/part_000) *)

\* enum SidebarTabs (lines 84-93): a numeric enum
SidebarTabs == [RECENT |-> 0, FOLDER |-> 1, FAVORITES |-> 2, GROUPS |-> 3,
                DIRECTS |-> 4, ARCHIVES |-> 5, CONNECT |-> 6, PREFERENCES |-> 7]
TabValues == {SidebarTabs[k] : k \in DOMAIN SidebarTabs}

ListState == [CONVERSATIONS |-> "ListState.CONVERSATIONS",
              PREFERENCES   |-> "ListState.PREFERENCES"]
ContentState == [CONVERSATION        |-> "ContentState.CONVERSATION",
                 PREFERENCES_ACCOUNT |-> "ContentState.PREFERENCES_ACCOUNT",
                 PREFERENCES_OPTIONS |-> "ContentState.PREFERENCES_OPTIONS"]
ViewType == [LEFT_SIDEBAR   |-> "ViewType.LEFT_SIDEBAR",
             CENTRAL_COLUMN |-> "ViewType.CENTRAL_COLUMN"]
DefaultLabelIds == [Favorites |-> "favorites"]

\* the conversations that can be active; 0 stands for no active conversation
Conversations == {1, 2, 3}
\* the values of conversationState.visibleConversations (line 120): the
\* conversations that are not archived; conversation 3 is archived in both
VisibleSets == {{1, 2}, {1}}
\* conversationState.isVisible(conversation)
isVisible(visible, conversation) == conversation \in visible
\* conversationLabelRepository.getConversationLabelIds(conversation)
getConversationLabelIds(conversation) ==
    CASE conversation = 1 -> <<"folder1">>
      [] conversation = 2 -> <<>>
      [] OTHER            -> <<"folder1", "folder2">>
\* the folder ids published with WebAppEvents.CONTENT.EXPAND_FOLDER
FolderIds == {"folder1", "folder2"}
\* what the user types into the search input
FilterValues == {"", "ann"}

\* the four effects of the component, by what they do (lines 166-200)
Effects == {"visibility", "folder", "favorited", "savePreference"}

\* isFolderTab (line 139)
isFolderTab(tab) == tab = SidebarTabs.FOLDER

\* The component: its state, what its committed render has seen (active,
\* count, isFolderTab: the values its effects close over and depend on),
\* the effects React has still to run, the objects it is given and the
\* external calls made so far by the event being handled.
Sidebar ==
    [mounted |-> sidebarMounted,
     currentTab |-> currentTab, conversationsFilter |-> conversationsFilter,
     active |-> renderedActive, count |-> renderedCount,
     isFolderTab |-> isFolderTab(currentTab), pending |-> pendingEffects,
     viewFolders |-> viewFolders, listState |-> listState,
     contentState |-> contentState, currentView |-> currentView,
     openFolders |-> openFolders, subscriptions |-> subscriptions,
     folderEffect |-> folderEffect, calls |-> <<>>]

\* a call of a method of an object the component was given
Call(sb, name) == [sb EXCEPT !.calls = Append(@, name)]

\* initialTab (lines 133-135)
initialTab(preference) ==
    IF Truthy(preference) THEN SidebarTabs.FOLDER ELSE SidebarTabs.RECENT

\* openFolder / isOpen of useFolderState
openFolder(sb, folderId) == [sb EXCEPT !.openFolders = @ \cup {folderId}]
isFolderOpen(sb, folderId) == folderId \in sb.openFolders

\* the effect of lines 166-171: activeConversation is the one of the render,
\* isVisible reads conversationState when the effect runs
VisibilityEffect(sb, visible) ==
    IF sb.active # 0 /\ ~isVisible(visible, sb.active)
    THEN Call(sb, "loadPreviousContent") ELSE sb

\* a cleanup of the EXPAND_FOLDER effect that does not unsubscribe
FolderEffectCleanup_keep(sb) == [sb EXCEPT !.folderEffect = "none"]

\* the cleanup the EXPAND_FOLDER effect returned (line 175 or lines 185-187)
FolderEffectCleanup(sb) ==
    IF sb.folderEffect = "unsubscribe"
    THEN [Call(sb, "unsubscribe") EXCEPT
              !.subscriptions.amplify = Remove(@, "openFolder"),
              !.folderEffect = "none"]
    ELSE [sb EXCEPT !.folderEffect = "none"]

\* the body of the EXPAND_FOLDER effect (lines 173-188)
FolderEffect(sb) ==
    IF sb.active = 0
    THEN [sb EXCEPT !.folderEffect = "noop"]
    ELSE LET conversationLabels == getConversationLabelIds(sb.active)
             subscribed ==
                 [Call(sb, "subscribe") EXCEPT
                      !.subscriptions.amplify = Append(@, "openFolder"),
                      !.folderEffect = "unsubscribe"]
         IN IF \E i \in DOMAIN conversationLabels :
                   isFolderOpen(subscribed, conversationLabels[i])
            THEN subscribed
            ELSE openFolder(subscribed, IF conversationLabels = <<>> THEN Undefined
                                        ELSE conversationLabels[1])

\* the effect of lines 190-196 and its cleanup
FavoritedEffect(sb) ==
    [sb EXCEPT !.subscriptions.labelRepository = Append(@, "openFavorites")]
FavoritedEffectCleanup(sb) ==
    [sb EXCEPT !.subscriptions.labelRepository = Remove(@, "openFavorites")]

\* the effect of lines 198-200: isFolderTab is the one of the render
SavePreferenceEffect(sb) ==
    [Call(sb, "savePreference") EXCEPT
         !.viewFolders = IF sb.isFolderTab THEN True ELSE False]

\* the values the dependency arrays of lines 171, 188, 196 and 200 compare
Deps(active, count, tab) ==
    [active |-> active, count |-> count, isFolderTab |-> isFolderTab(tab)]

\* dependency arrays of which line 200 never reports a change
ChangedDeps_skip(before, after) ==
    (IF before.active # after.active \/ before.count # after.count
     THEN {"visibility"} ELSE {})
    \cup (IF before.active # after.active THEN {"folder"} ELSE {})

\* the effects a render after the first one schedules: those with a changed
\* dependency (lines 171, 188, 196, 200)
ChangedDeps(before, after) ==
    (IF before.active # after.active \/ before.count # after.count
     THEN {"visibility"} ELSE {})
    \cup (IF before.active # after.active THEN {"folder"} ELSE {})
    \cup (IF before.isFolderTab # after.isFolderTab THEN {"savePreference"} ELSE {})

\* React runs the pending effects of the committed render: the cleanups of
\* the effects that run again, then their bodies in the order of the source;
\* for a component that was removed, the cleanups alone
RunEffects(sb, visible) ==
    IF ~sb.mounted
    THEN LET folder    == IF "folder" \in sb.pending
                          THEN FolderEffectCleanup(sb) ELSE sb
             favorited == IF "favorited" \in sb.pending
                          THEN FavoritedEffectCleanup(folder) ELSE folder
         IN [favorited EXCEPT !.pending = {}]
    ELSE LET cleaned    == IF "folder" \in sb.pending
                           THEN FolderEffectCleanup(sb) ELSE sb
             visibility == IF "visibility" \in sb.pending
                           THEN VisibilityEffect(cleaned, visible) ELSE cleaned
             folder     == IF "folder" \in sb.pending
                           THEN FolderEffect(visibility) ELSE visibility
             favorited  == IF "favorited" \in sb.pending
                           THEN FavoritedEffect(folder) ELSE folder
             saved      == IF "savePreference" \in sb.pending
                           THEN SavePreferenceEffect(favorited) ELSE favorited
         IN [saved EXCEPT !.pending = {}]

\* a render of the mounted component with the given values of
\* activeConversation and conversations.length: React first runs the effects
\* that are still pending, then commits the render, whose effects with a
\* changed dependency become pending
RenderConversations(sb, active, count, visible) ==
    LET flushed == RunEffects(sb, visible)
        before  == [active |-> flushed.active, count |-> flushed.count,
                    isFolderTab |-> flushed.isFolderTab]
        after   == Deps(active, count, flushed.currentTab)
    IN [flushed EXCEPT !.active = after.active, !.count = after.count,
                       !.isFolderTab = after.isFolderTab,
                       !.pending = ChangedDeps(before, after)]

\* onExitPreferences (lines 223-227)
onExitPreferences(sb) ==
    [Call(Call(Call(sb, "setCurrentView"), "switchList"), "switchContent") EXCEPT
         !.currentView = ViewType.LEFT_SIDEBAR,
         !.listState = ListState.CONVERSATIONS,
         !.contentState = ContentState.CONVERSATION]

\* changeTab with the condition "&& isPreferences" of line 210 in force
changeTab_isPreferences(sb, nextTab) ==
    LET archived == IF nextTab = SidebarTabs.ARCHIVES
                    THEN Call(sb, "updateArchivedConversations") ELSE sb
        exited   == IF nextTab # SidebarTabs.PREFERENCES
                       /\ sb.currentTab = SidebarTabs.PREFERENCES
                    THEN onExitPreferences(archived) ELSE archived
    IN [exited EXCEPT !.conversationsFilter = "", !.currentTab = nextTab]

\* changeTab (lines 202-219)
changeTab(sb, nextTab) ==
    LET archived == IF nextTab = SidebarTabs.ARCHIVES
                    THEN Call(sb, "updateArchivedConversations") ELSE sb
        exited   == IF nextTab # SidebarTabs.PREFERENCES
                    THEN onExitPreferences(archived) ELSE archived
    IN [exited EXCEPT !.conversationsFilter = "", !.currentTab = nextTab]

\* onClickPreferences (lines 229-239); the delayed focus() touches the DOM only
onClickPreferences(sb, itemId) ==
    [Call(Call(Call(sb, "switchList"), "setCurrentView"), "switchContent") EXCEPT
         !.listState = ListState.PREFERENCES,
         !.currentView = ViewType.CENTRAL_COLUMN,
         !.contentState = itemId]

\* showSearchInput (lines 142-149)
showSearchInput(tab) ==
    tab \in {SidebarTabs.RECENT, SidebarTabs.FOLDER, SidebarTabs.FAVORITES,
             SidebarTabs.GROUPS, SidebarTabs.DIRECTS, SidebarTabs.ARCHIVES}

\* the fields after an event of the sidebar; tab is the argument of
\* changeTab and -1 for the other events; an event that makes no call and
\* changes nothing is not recorded
CommitSidebar(op, tab, sb) ==
    /\ sidebarEvent' = IF sb = Sidebar /\ op # "render" THEN sidebarEvent
                       ELSE [op |-> op, tab |-> tab, calls |-> sb.calls]
    /\ sidebarMounted' = sb.mounted
    /\ currentTab' = sb.currentTab
    /\ conversationsFilter' = sb.conversationsFilter
    /\ renderedActive' = sb.active
    /\ renderedCount' = sb.count
    /\ pendingEffects' = sb.pending
    /\ viewFolders' = sb.viewFolders
    /\ listState' = sb.listState
    /\ contentState' = sb.contentState
    /\ currentView' = sb.currentView
    /\ openFolders' = sb.openFolders
    /\ subscriptions' = sb.subscriptions
    /\ folderEffect' = sb.folderEffect

\* no sidebar is mounted; preference is the saved VIEW_FOLDERS value
SidebarIdle(preference) ==
    /\ sidebarMounted = FALSE
    /\ currentTab = SidebarTabs.RECENT
    /\ conversationsFilter = ""
    /\ activeConversation = 0
    /\ visibleConversations = {1, 2}
    /\ renderedActive = 0
    /\ renderedCount = 0
    /\ renderPending = FALSE
    /\ pendingEffects = {}
    /\ viewFolders = preference
    /\ listState = ListState.CONVERSATIONS
    /\ contentState = ContentState.CONVERSATION
    /\ currentView = ViewType.LEFT_SIDEBAR
    /\ openFolders = {}
    /\ subscriptions = [amplify |-> <<>>, labelRepository |-> <<>>]
    /\ folderEffect = "none"
    /\ sidebarEvent = [op |-> "none", tab |-> -1, calls |-> <<>>]

\* the component is mounted: the cleanups a removed component has left
\* pending run, then the first render (lines 110-164) is committed; its four
\* effects (lines 166-200) are pending
MountSidebar ==
    /\ ~sidebarMounted
    /\ LET flushed == RunEffects(Sidebar, visibleConversations)
           tab     == initialTab(flushed.viewFolders)
       IN CommitSidebar("mount", -1,
              [flushed EXCEPT !.mounted = TRUE,
                              !.currentTab = tab,
                              !.conversationsFilter = "",
                              !.active = activeConversation,
                              !.count = Cardinality(visibleConversations),
                              !.isFolderTab = isFolderTab(tab),
                              !.pending = Effects])
    /\ renderPending' = FALSE
    /\ UNCHANGED <<activeConversation, visibleConversations>>
    /\ UNCHANGED <<modalVars, mentionVars>>

\* a tab of ConversationTabs is chosen, or one of the "connect" buttons
\* (lines 255, 313, 349): the handler runs and, if it has changed the state,
\* the component renders at the end of the event with the values of the
\* observables it rendered last; the effects of that render are left to the
\* scheduler (legacy root) or run at once (a click under a React 18 root)
ChangeTab(nextTab) ==
    /\ sidebarMounted
    /\ \E deferred \in BOOLEAN :
          LET handled  == changeTab(Sidebar, nextTab)
              rendered == RenderConversations(handled, renderedActive, renderedCount,
                                              visibleConversations)
          IN CommitSidebar("changeTab", nextTab,
                 IF handled.currentTab = currentTab
                    /\ handled.conversationsFilter = conversationsFilter
                 THEN handled
                 ELSE IF deferred THEN rendered
                 ELSE RunEffects(rendered, visibleConversations))
    /\ UNCHANGED <<activeConversation, visibleConversations, renderPending>>
    /\ UNCHANGED <<modalVars, mentionVars>>

ChangeTabAny == \E nextTab \in TabValues : ChangeTab(nextTab)

\* the tabs that decide isFolderTab, and one that leaves the conversations
FolderTabs == {SidebarTabs.RECENT, SidebarTabs.FOLDER, SidebarTabs.PREFERENCES}
ChangeFolderTab == \E nextTab \in FolderTabs : ChangeTab(nextTab)

\* the preferences entry of the tabs, or an item of the Preferences panel
\* (lines 257, 298); no state of the component changes
ClickPreferences ==
    /\ sidebarMounted
    /\ \E itemId \in {ContentState.PREFERENCES_ACCOUNT} \cup
                     (IF currentTab = SidebarTabs.PREFERENCES
                      THEN {ContentState.PREFERENCES_OPTIONS} ELSE {}) :
          CommitSidebar("onClickPreferences", -1, onClickPreferences(Sidebar, itemId))
    /\ UNCHANGED <<activeConversation, visibleConversations, renderPending>>
    /\ UNCHANGED <<modalVars, mentionVars>>

\* the search input changes, or its clear icon is clicked (lines 324-337);
\* a changed filter renders the component, no dependency of an effect changes
TypeFilter ==
    /\ sidebarMounted
    /\ showSearchInput(currentTab)
    /\ \E value \in FilterValues :
          LET handled == [Sidebar EXCEPT !.conversationsFilter = value]
          IN CommitSidebar("filter", -1,
                 IF value = conversationsFilter THEN handled
                 ELSE RenderConversations(handled, renderedActive, renderedCount,
                                          visibleConversations))
    /\ UNCHANGED <<activeConversation, visibleConversations, renderPending>>
    /\ UNCHANGED <<modalVars, mentionVars>>

\* conversationState.activeConversation changes (line 115): a mounted
\* sidebar is to render again
SetActiveConversation ==
    /\ \E conversation \in (Conversations \cup {0}) \ {activeConversation} :
          activeConversation' = conversation
    /\ renderPending' = sidebarMounted
    /\ sidebarEvent' = [op |-> "activeConversation", tab |-> -1, calls |-> <<>>]
    /\ UNCHANGED <<visibleConversations, componentVars>>
    /\ UNCHANGED <<modalVars, mentionVars>>

\* conversationState.visibleConversations changes (line 120): a mounted
\* sidebar is to render again
SetVisibleConversations ==
    /\ \E visible \in VisibleSets \ {visibleConversations} :
          visibleConversations' = visible
    /\ renderPending' = sidebarMounted
    /\ sidebarEvent' = [op |-> "visibleConversations", tab |-> -1, calls |-> <<>>]
    /\ UNCHANGED <<activeConversation, componentVars>>
    /\ UNCHANGED <<modalVars, mentionVars>>

\* the render the change of an observable has asked for (lines 114-128)
RenderSidebar ==
    /\ sidebarMounted
    /\ renderPending
    /\ renderPending' = FALSE
    /\ CommitSidebar("render", -1,
           RenderConversations(Sidebar, activeConversation,
                               Cardinality(visibleConversations),
                               visibleConversations))
    /\ UNCHANGED <<activeConversation, visibleConversations>>
    /\ UNCHANGED <<modalVars, mentionVars>>

\* the scheduler runs the pending effects (lines 166-200)
FlushSidebarEffects ==
    /\ pendingEffects # {}
    /\ CommitSidebar("flush", -1, RunEffects(Sidebar, visibleConversations))
    /\ UNCHANGED <<activeConversation, visibleConversations, renderPending>>
    /\ UNCHANGED <<modalVars, mentionVars>>

\* amplify.publish(WebAppEvents.CONTENT.EXPAND_FOLDER, folderId): every
\* subscribed callback is called with the folder id
PublishExpandFolder ==
    /\ \E folderId \in FolderIds :
          CommitSidebar("expandFolder", -1,
                        IF subscriptions.amplify # <<>>
                        THEN openFolder(Sidebar, folderId) ELSE Sidebar)
    /\ UNCHANGED <<activeConversation, visibleConversations, renderPending>>
    /\ UNCHANGED <<modalVars, mentionVars>>

\* conversationLabelRepository dispatches 'conversation-favorited'
ConversationFavorited ==
    /\ CommitSidebar("favorited", -1,
                     IF subscriptions.labelRepository # <<>>
                     THEN openFolder(Sidebar, DefaultLabelIds.Favorites) ELSE Sidebar)
    /\ UNCHANGED <<activeConversation, visibleConversations, renderPending>>
    /\ UNCHANGED <<modalVars, mentionVars>>

\* the component is removed: React runs the effects that are still pending,
\* commits the removal and discards the state; the cleanups of lines 185-187
\* and 193-195 are left to the scheduler (React 17 and later) or run at once
\* (React 16, and a removal React 18 commits synchronously)
UnmountSidebar ==
    /\ sidebarMounted
    /\ \E deferred \in BOOLEAN :
          LET flushed == RunEffects(Sidebar, visibleConversations)
              removed == [flushed EXCEPT !.mounted = FALSE,
                                         !.currentTab = SidebarTabs.RECENT,
                                         !.conversationsFilter = "",
                                         !.active = 0,
                                         !.count = 0,
                                         !.isFolderTab = FALSE,
                                         !.pending = {"folder", "favorited"}]
          IN CommitSidebar("unmount", -1,
                 IF deferred THEN removed
                 ELSE RunEffects(removed, visibleConversations))
    /\ renderPending' = FALSE
    /\ UNCHANGED <<activeConversation, visibleConversations>>
    /\ UNCHANGED <<modalVars, mentionVars>>

-----------------------------------------------------------------------------
(* Specifications *)

Init == ModalInit /\ MentionIdle /\ SidebarIdle(Undefined)

Next ==
    \/ ShowModal
    \/ Ready
    \/ Unqueue
    \/ Confirm
    \/ DoAction
    \/ DoSecondary
    \/ Hide
    \/ BgClick
    \/ OnModalHidden
    \/ TypeInput
    \/ ToggleOption

Spec == Init /\ [][Next]_vars

NextMention ==
    \/ Mount
    \/ FlushEffects
    \/ SetSuggestions
    \/ KeyDownAny
    \/ MouseEnterAny
    \/ SuggestionClick
    \/ Unmount

SpecMention == Init /\ [][NextMention]_vars

\* the sidebar of a session in which the preference VIEW_FOLDERS was never
\* saved, or was saved as true or false by an earlier session
InitSidebar ==
    /\ ModalInit
    /\ MentionIdle
    /\ \E preference \in {Undefined, True, False} : SidebarIdle(preference)

\* the sidebar, the observables of conversationState it renders and the
\* events it subscribes to
NextSidebar ==
    \/ MountSidebar
    \/ ChangeFolderTab
    \/ SetActiveConversation
    \/ SetVisibleConversations
    \/ RenderSidebar
    \/ FlushSidebarEffects
    \/ PublishExpandFolder
    \/ ConversationFavorited
    \/ UnmountSidebar

SpecSidebar == InitSidebar /\ [][NextSidebar]_vars

\* the sidebar and the user who chooses conversations and tabs, opens the
\* preferences and types into the search input
NextTabs ==
    \/ MountSidebar
    \/ ChangeTabAny
    \/ ClickPreferences
    \/ TypeFilter
    \/ SetActiveConversation
    \/ RenderSidebar
    \/ FlushSidebarEffects
    \/ UnmountSidebar

SpecTabs == InitSidebar /\ [][NextTabs]_vars

\* The environment of a running application: ready() is called once, when the
\* DOM is bound; the buttons and the background of a modal are clicked while
\* it is on screen; the view reports the end of the close animation of a
\* modal that is closing.
NextUI ==
    \/ ShowModal
    \/ (state = States.NONE /\ Ready)
    \/ (state \in {States.OPEN, States.CLOSING} /\ DoAction)
    \/ (state \in {States.OPEN, States.CLOSING} /\ DoSecondary)
    \/ (state \in {States.OPEN, States.CLOSING} /\ Hide)
    \/ (state \in {States.OPEN, States.CLOSING} /\ BgClick)
    \/ (state = States.CLOSING /\ OnModalHidden)
    \/ TypeInput
    \/ ToggleOption

\* ready() is eventually called, every open modal is eventually hidden and
\* the hiding is eventually followed by onModalHidden
LiveSpec ==
    /\ Init
    /\ [][NextUI]_vars
    /\ WF_vars(state = States.NONE /\ Ready)
    /\ WF_vars(state = States.OPEN /\ Hide)
    /\ WF_vars(state = States.CLOSING /\ OnModalHidden)

-----------------------------------------------------------------------------
(* Observations used by the properties *)

\* the number of requests _showModal displayed
NumShown(log) == Cardinality({i \in DOMAIN log : log[i].outcome = "shown"})

\* the arrival numbers of the requests waiting in a queue
QueueIds(q) == {q[i].id : i \in DOMAIN q}

\* the requests taken from the queue
DequeuedIds(log) == {log[i].req : i \in DOMAIN log}

\* _showModal displays the request: its type is supported and building the
\* content does not throw
Displayable(request) ==
    request.type \in TypeValues /\ ~Throws(request.type, request.options)

\* q continues p
IsPrefix(p, q) == Len(p) <= Len(q) /\ SubSeq(q, 1, Len(p)) = p

\* the last entry of a non-empty log
Last(log) == log[Len(log)]

-----------------------------------------------------------------------------
(* Properties of the modal manager *)

\* C1: requests are displayed in the order of the showModal calls (FIFO):
\* requests leave the queue in the order of their arrival numbers, and no
\* request leaves it while a request that arrived earlier still waits.  This
\* holds for all requests, hence for those passed while the manager is not
\* READY, which are the ones that wait.
FifoDisplayOrder ==
    /\ \A i, j \in DOMAIN dequeued : i < j => dequeued[i].req < dequeued[j].req
    /\ \A i \in DOMAIN dequeued, k \in DOMAIN queue : dequeued[i].req < queue[k].id
    /\ \A k, l \in DOMAIN queue : k < l => queue[k].id < queue[l].id

\* ready() has found several requests in the queue and displayed the first
\* one: nothing was taken from the queue before, so every one of them was
\* passed to showModal while the manager was not READY
FifoDisplayOrderWitness ==
    /\ lastOp = "ready"
    /\ state = States.OPEN
    /\ dequeued = <<[req |-> 1, outcome |-> "shown"]>>
    /\ content.req = 1
    /\ Len(queue) >= 1
    /\ Head(queue).id = 2

\* C2: at most one modal is open at a time: a handler displays at most one
\* request, a request leaves the queue only in state READY (ready and
\* onModalHidden move to READY before they look at the queue), and while the
\* state is OPEN or CLOSING no other handler replaces the content or takes a
\* request from the queue.
OneModalAtATime ==
    [][/\ NumShown(dequeued') <= NumShown(dequeued) + 1
       /\ dequeued' # dequeued =>
             (state = States.READY \/ lastOp' \in {"ready", "onModalHidden"})
       /\ (state \in {States.OPEN, States.CLOSING}
              /\ lastOp' \notin {"ready", "onModalHidden"}) =>
             (content' = content /\ dequeued' = dequeued /\ IsPrefix(queue, queue'))
      ]_vars

\* a showModal call made while a modal was open left its request in the queue
OneModalAtATimeWitness ==
    /\ lastOp = "showModal"
    /\ state = States.OPEN
    /\ queue # <<>>
    /\ content.req \notin QueueIds(queue)
    /\ content.req \in DequeuedIds(dequeued)

\* C3: every request of a supported type that waits in the queue is
\* eventually displayed (state OPEN with the content of that request), given
\* that ready() is called and every open modal is hidden and followed by
\* onModalHidden.
EveryRequestEventuallyShown ==
    \A id \in 1..MaxRequests :
        (\E i \in DOMAIN queue : queue[i].id = id /\ queue[i].type \in TypeValues)
            ~> (state = States.OPEN /\ content.req = id)

\* a step takes a request of an unsupported type from the queue
DequeuesUnsupported ==
    \/ /\ queue # <<>>
       /\ Head(queue).type \notin TypeValues
       /\ Head(queue).id \notin QueueIds(queue')
    \/ /\ queue = <<>>
       /\ state = States.READY
       /\ \E input \in RequestInputs :
             /\ input[1] \notin TypeValues
             /\ Commit("showModal", showModal(Mgr, input[1], input[2]))

\* C4: a request of an unsupported type is dropped when it is taken from the
\* queue, and taking it changes nothing else: after showModal the state, the
\* content, inputValue and optionChecked are what they were, after ready()
\* and onModalHidden they are what these handlers set before they look at
\* the queue, and no request is displayed.
UnsupportedLeavesState ==
    [][DequeuesUnsupported =>
          /\ Len(dequeued') = Len(dequeued) + 1
          /\ SubSeq(dequeued', 1, Len(dequeued)) = dequeued
          /\ Last(dequeued').outcome = "unsupported"
          /\ lastOp' = "showModal" =>
                /\ state' = state /\ content' = content
                /\ inputValue' = inputValue /\ optionChecked' = optionChecked
          /\ lastOp' = "unqueue" =>
                /\ state' = state /\ content' = content
                /\ inputValue' = inputValue /\ optionChecked' = optionChecked
          /\ lastOp' = "ready" =>
                /\ state' = States.READY /\ content' = content
                /\ inputValue' = inputValue /\ optionChecked' = optionChecked
          /\ lastOp' = "onModalHidden" =>
                /\ state' = States.READY /\ content' = defaultContent
                /\ inputValue' = "" /\ optionChecked' = FALSE
      ]_vars

\* showModal, called in state READY, has just dropped its own request of an
\* unsupported type
UnsupportedLeavesStateWitness ==
    /\ lastOp = "showModal"
    /\ state = States.READY
    /\ dequeued # <<>>
    /\ Last(dequeued).outcome = "unsupported"
    /\ Last(dequeued).req = arrivals

\* C5 as stated: after onModalHidden the state is READY, inputValue is the
\* empty string and optionChecked is false.
OnModalHiddenEndsReady ==
    [][lastOp' = "onModalHidden" =>
          (state' = States.READY /\ inputValue' = "" /\ optionChecked' = FALSE)]_vars

\* C5 amended: after onModalHidden inputValue is the empty string and
\* optionChecked is false; the state is OPEN when the oldest queued request
\* could be displayed, and READY otherwise.
OnModalHiddenResets ==
    [][lastOp' = "onModalHidden" =>
          /\ inputValue' = ""
          /\ optionChecked' = FALSE
          /\ state' = IF queue # <<>> /\ Displayable(Head(queue))
                      THEN States.OPEN ELSE States.READY
      ]_vars

\* onModalHidden has run after a first modal and displayed the next request
OnModalHiddenResetsWitness ==
    /\ lastOp = "onModalHidden"
    /\ state = States.OPEN
    /\ NumShown(dequeued) >= 2
    /\ inputValue = ""
    /\ optionChecked = FALSE

\* the transitions of the lifecycle NONE -> READY -> OPEN -> CLOSING -> READY
LifecycleEdges ==
    { <<States.NONE, States.READY>>, <<States.READY, States.OPEN>>,
      <<States.OPEN, States.CLOSING>>, <<States.CLOSING, States.READY>> }

\* every assignment a handler makes to this.state, starting from state from,
\* keeps the state or follows an edge of the lifecycle
FollowsLifecycle(from, trace) ==
    \A i \in DOMAIN trace :
        LET before == IF i = 1 THEN from ELSE trace[i - 1]
        IN before = trace[i] \/ <<before, trace[i]>> \in LifecycleEdges

\* C6: under any sequence of showModal, ready, hide, doAction, doSecondary,
\* background click and onModalHidden the state moves only along the
\* lifecycle: CLOSING is entered only from OPEN, OPEN only from READY, READY
\* only from NONE or CLOSING, and NONE is never entered.
StateFollowsLifecycle ==
    [][/\ lastOp' = "showModal" =>
             \A input \in RequestInputs, zone \in Zones :
                 Commit("showModal", showModal(MgrIn(zone), input[1], input[2])) =>
                     FollowsLifecycle(state, showModal(MgrIn(zone), input[1], input[2]).trace)
       /\ lastOp' = "ready" => FollowsLifecycle(state, ready(Mgr).trace)
       /\ lastOp' = "hide" => FollowsLifecycle(state, hide(Mgr).trace)
       /\ lastOp' = "doAction" => FollowsLifecycle(state, doAction(Mgr).trace)
       /\ lastOp' = "doSecondary" => FollowsLifecycle(state, doSecondary(Mgr).trace)
       /\ lastOp' = "onBgClick" => FollowsLifecycle(state, onBgClick(Mgr).trace)
       /\ lastOp' = "onModalHidden" => FollowsLifecycle(state, onModalHidden(Mgr).trace)
      ]_vars

\* C7, first part: while the state is NONE showModal only appends to the
\* queue and no request has been displayed.
QueuedUntilReady ==
    /\ [](state = States.NONE => (dequeued = <<>> /\ content = defaultContent))
    /\ [][(state = States.NONE /\ lastOp' = "showModal") =>
             /\ state' = States.NONE /\ content' = content /\ dequeued' = dequeued
             /\ Len(queue') = Len(queue) + 1 /\ IsPrefix(queue, queue')
             /\ Last(queue').id = arrivals']_vars

\* C7 as stated: ... and ready() called with a non-empty queue takes exactly
\* the oldest request from the queue and displays it.
ReadyShowsOldest ==
    /\ QueuedUntilReady
    /\ [][(lastOp' = "ready" /\ queue # <<>>) =>
             /\ queue' = Tail(queue)
             /\ dequeued' = Append(dequeued, [req |-> Head(queue).id, outcome |-> "shown"])
             /\ state' = States.OPEN
             /\ \E zone \in Zones :
                   content' = BuildContent(Head(queue).id, Head(queue).type,
                                           Head(queue).options, zone)]_vars

\* C7 amended: ... and the ready() call that binds the view (a later call
\* throws at line 85 and changes nothing), made with a non-empty queue, takes
\* exactly the oldest request from the queue; it displays that request when
\* _showModal accepts it, and otherwise leaves the manager READY with the
\* content unchanged and displays nothing.
ReadyTakesOldest ==
    /\ QueuedUntilReady
    /\ [][(lastOp' = "ready" /\ queue # <<>>) =>
             /\ queue' = Tail(queue)
             /\ Len(dequeued') = Len(dequeued) + 1
             /\ IsPrefix(dequeued, dequeued')
             /\ Last(dequeued').req = Head(queue).id
             /\ IF Displayable(Head(queue))
                THEN /\ Last(dequeued').outcome = "shown"
                     /\ state' = States.OPEN
                     /\ \E zone \in Zones :
                           content' = BuildContent(Head(queue).id, Head(queue).type,
                                                   Head(queue).options, zone)
                ELSE /\ Last(dequeued').outcome # "shown"
                     /\ state' = States.READY
                     /\ content' = content]_vars

\* ready() has displayed the oldest of the requests queued before it and
\* left the others in the queue
ReadyTakesOldestWitness ==
    /\ lastOp = "ready"
    /\ state = States.OPEN
    /\ dequeued = <<[req |-> 1, outcome |-> "shown"]>>
    /\ content.req = 1
    /\ Len(queue) >= 2
    /\ Len(queue) = arrivals - 1

\* C8: the content is the default content whenever the state is NONE or
\* READY, and whenever the state is OPEN it is the content of the request
\* taken from the queue last.
ContentOnlyWhileDisplayed ==
    /\ state \in {States.NONE, States.READY} => content = defaultContent
    /\ state = States.OPEN =>
          /\ dequeued # <<>>
          /\ Last(dequeued) = [req |-> content.req, outcome |-> "shown"]
          /\ content.currentType \in TypeValues

\* the options with which a request of a type is passed to showModal, by a
\* caller or by a callback
OptionsOf(type) ==
    {input[2] : input \in {i \in RequestInputs : i[1] = type}}
        \cup (IF type = NestedType THEN {NoOptions} ELSE {})

\* C13: preventClose true disables close-by-background-click: a background
\* click on a displayed request with preventClose true changes neither the
\* state, the content, the queue nor anything else and invokes no callback;
\* on a displayed request with preventClose false or absent it does exactly
\* what hide() does.
PreventCloseDisablesBgClick ==
    [][(lastOp' = "onBgClick" /\ content.req # 0) =>
          /\ (\A o \in OptionsOf(content.currentType) : o.preventClose = True) =>
                 /\ UNCHANGED <<state, content, queue, inputValue, optionChecked,
                                arrivals, dequeued, calls>>
          /\ (\A o \in OptionsOf(content.currentType) :
                    o.preventClose \in {False, Undefined}) =>
                 Commit("onBgClick", hide(Mgr))
      ]_vars

\* the background of an open modal with preventClose true was clicked: the
\* modal is still open and its close callback, which exists, was not called
PreventCloseDisablesBgClickWitness ==
    /\ lastOp = "onBgClick"
    /\ state = States.OPEN
    /\ content.currentType = TYPE.CONFIRM
    /\ content.closeFn # noop
    /\ content.onBgClick = noop
    /\ calls = <<>>

\* the arrival number of the request displayed last; 0 if there is none
LastShownId(log) ==
    LET shown == {log[i].req : i \in {j \in DOMAIN log : log[j].outcome = "shown"}}
    IN IF shown = {} THEN 0 ELSE CHOOSE id \in shown : \A other \in shown : other <= id

\* hide() calls the close callback of the content, if it has one, exactly
\* once and with the state already CLOSING; the content is that of the
\* request displayed last and not of a request in the queue
HideCallsCloseOfDisplayed ==
    /\ state' = States.CLOSING
    /\ content' = content
    /\ content.req # 0 => (content.req = LastShownId(dequeued)
                              /\ content.req \notin QueueIds(queue))
    /\ calls' = IF content.closeFn = noop THEN calls
                ELSE Append(calls, [fn |-> "closeFn", req |-> content.req,
                                    state |-> States.CLOSING, args |-> <<>>])

\* C16 as stated: hide() invokes the close callback of the displayed
\* request, not of a queued one, with the state already CLOSING, and leaves
\* the queue unchanged.
HideLeavesQueue ==
    [][lastOp' = "hide" => (HideCallsCloseOfDisplayed /\ queue' = queue)]_vars

\* C16 amended: hide() invokes the close callback of the displayed request,
\* not of a queued one, with the state already CLOSING; hide() takes nothing
\* from the queue and displays nothing, and the queue is unchanged unless the
\* close callback itself calls showModal, whose request is then appended.
HideKeepsQueuedRequests ==
    [][lastOp' = "hide" =>
          /\ HideCallsCloseOfDisplayed
          /\ dequeued' = dequeued
          /\ IF content.closeFn = "fnShowModal" /\ arrivals < MaxRequests
             THEN /\ queue' = Append(queue, [id |-> arrivals + 1, type |-> NestedType,
                                             options |-> NoOptions])
                  /\ arrivals' = arrivals + 1
             ELSE queue' = queue /\ arrivals' = arrivals
      ]_vars

\* hide() has run on an open modal while another request was waiting: the
\* close callback of the open modal was called in state CLOSING and has
\* queued a further request behind the waiting one
HideKeepsQueuedRequestsWitness ==
    /\ lastOp = "hide"
    /\ state = States.CLOSING
    /\ calls = <<[fn |-> "closeFn", req |-> content.req,
                  state |-> States.CLOSING, args |-> <<>>]>>
    /\ Len(queue) >= 2
    /\ Last(queue).type = NestedType
    /\ Last(queue).id = arrivals

\* C18: whenever an operation of the manager has completed and the state is
\* READY, the queue is empty.
IdleImpliesEmptyQueue ==
    state = States.READY => queue = <<>>

\* C19: between the display of a request and the following onModalHidden
\* its action callback, its secondary callback and its close callback are
\* each invoked at most once, whatever buttons are clicked, also while the
\* state is CLOSING.
CallbacksAtMostOnce ==
    \A slot \in {"actionFn", "secondaryFn", "closeFn"} :
        Cardinality({i \in DOMAIN calls :
                        calls[i].fn = slot /\ calls[i].req = content.req}) <= 1

\* the requests in a queue that a callback passed to showModal
NestedIds(q) == {q[i].id : i \in {j \in DOMAIN q : q[j].type = NestedType}}

\* a button or background handler that ran on a displayed modal has not
\* replaced it: whatever its callbacks passed to showModal is at the tail
\* of the queue, and nothing was taken from the queue
CallbackRequestsQueuedOnly ==
    [][(/\ lastOp' \in {"doAction", "doSecondary", "hide", "onBgClick"}
        /\ state \in {States.OPEN, States.CLOSING}) =>
          /\ content' = content
          /\ dequeued' = dequeued
          /\ IsPrefix(queue, queue')
          /\ Len(queue') = Len(queue) + (arrivals' - arrivals)
          /\ \A i \in (Len(queue) + 1)..Len(queue') :
                queue'[i].type = NestedType /\ queue'[i].id > arrivals
          /\ state' \in {States.OPEN, States.CLOSING}
      ]_vars

\* C20: a showModal call made from inside a callback of the displayed modal
\* never replaces that modal: the new request is only queued, and it is
\* displayed later, after onModalHidden.
CallbackRequestDisplayedLater ==
    /\ CallbackRequestsQueuedOnly
    /\ \A id \in 1..MaxRequests :
          (id \in NestedIds(queue)) ~> (state = States.OPEN /\ content.req = id)

\* the entries of the log for a request with one of the outcomes
Entries(log, id, outcomes) ==
    {i \in DOMAIN log : log[i].req = id /\ log[i].outcome \in outcomes}

\* every request passed to showModal so far is in exactly one place: once in
\* the queue and not in the log, or not in the queue and once in the log
\* with one of the outcomes
Accounted(outcomes) ==
    \A id \in 1..arrivals :
        LET waiting == Cardinality({k \in DOMAIN queue : queue[k].id = id})
            logged  == Cardinality(Entries(dequeued, id, outcomes))
        IN /\ waiting + logged = 1
           /\ Entries(dequeued, id, {"shown"}) # {} =>
                 Entries(dequeued, id, {"unsupported"}) = {}

\* the queue after a handler is the queue before it with the requests the
\* handler passed to showModal appended at the tail, in call order, and the
\* requests the handler took removed from the head
QueueDiscipline ==
    [][LET pushed == arrivals' - arrivals
           taken  == Len(dequeued') - Len(dequeued)
           IdAt(i) == IF i <= Len(queue) THEN queue[i].id
                      ELSE arrivals + (i - Len(queue))
       IN /\ pushed >= 0
          /\ taken \in 0..(Len(queue) + pushed)
          /\ IsPrefix(dequeued, dequeued')
          /\ Len(queue') = Len(queue) + pushed - taken
          /\ \A i \in DOMAIN queue' :
                /\ queue'[i].id = IdAt(i + taken)
                /\ i + taken <= Len(queue) => queue'[i] = queue[i + taken]
          /\ \A j \in 1..taken : dequeued'[Len(dequeued) + j].req = IdAt(j)
      ]_vars

\* C21: no request is lost or duplicated: after any sequence of operations
\* every request passed to showModal is in exactly one of these situations
\* - still in the queue, displayed exactly once, or dropped as unsupported -
\* and the queue changes only by appending at the tail and removing the head.
NoRequestLostOrDuplicated ==
    /\ [](Accounted({"shown", "unsupported"}))
    /\ QueueDiscipline

\* the record of a call of a callback of the displayed request
CallOf(slot, during, args) ==
    IF content[slot] = noop THEN <<>>
    ELSE <<[fn |-> slot, req |-> content.req, state |-> during, args |-> args]>>

\* what the action callback of the displayed request is to be called with
ActionArguments ==
    CASE content.currentType = TYPE.OPTION ->
             <<IF optionChecked THEN True ELSE False>>
      [] content.currentType = TYPE.INPUT -> <<"'" \o inputValue \o "'">>
      [] OTHER -> <<>>

\* C22: on a displayed modal doAction invokes the request's action callback
\* and then its close callback; the action callback runs before hide() has
\* changed the state - the state is still OPEN when doAction is called on an
\* open modal - and the close callback runs in state CLOSING; the action
\* callback receives the checkbox value for OPTION, the input value for
\* INPUT and no argument for every other type.  doSecondary invokes the
\* secondary callback and then the close callback in the same way.
ActionThenClose ==
    [][(state \in {States.OPEN, States.CLOSING}) =>
          /\ lastOp' = "doAction" =>
                /\ calls' = calls \o CallOf("actionFn", state, ActionArguments)
                                  \o CallOf("closeFn", States.CLOSING, <<>>)
                /\ state' = States.CLOSING
          /\ lastOp' = "doSecondary" =>
                /\ calls' = calls \o CallOf("secondaryFn", state, <<>>)
                                  \o CallOf("closeFn", States.CLOSING, <<>>)
                /\ state' = States.CLOSING
      ]_vars

\* doAction has run on an open INPUT modal in which a text was typed: the
\* action callback was called first, in state OPEN and with the text, then
\* the close callback in state CLOSING
ActionThenCloseWitness ==
    /\ lastOp = "doAction"
    /\ state = States.CLOSING
    /\ content.currentType = TYPE.INPUT
    /\ inputValue = "abc"
    /\ calls = <<[fn |-> "actionFn", req |-> content.req,
                  state |-> States.OPEN, args |-> <<"'abc'">>],
                 [fn |-> "closeFn", req |-> content.req,
                  state |-> States.CLOSING, args |-> <<>>]>>

\* C23: values entered in one modal never reach a later modal's action
\* callback: whenever a request becomes displayed, inputValue is '' and
\* optionChecked is false, so what its action callback receives was entered
\* while this request was displayed and not during an earlier one.
EnteredValuesDoNotLeak ==
    [][NumShown(dequeued') > NumShown(dequeued) =>
          (inputValue' = "" /\ optionChecked' = FALSE)]_vars

-----------------------------------------------------------------------------
(* Properties of the mention suggestion list *)

\* C9: while the list is shown (the suggestions list is not empty) the
\* selection index is within [0, suggestions.length - 1] after any sequence
\* of key events, mouse-enter events and changes of the suggestions list.
IndexWithinList ==
    (mounted /\ suggestions # <<>>) =>
        selectedSuggestionIndex \in 0..(Len(suggestions) - 1)

\* C10: with the list shown, Enter or Tab without shift calls
\* onSelectionValidated once, with suggestions[selectedSuggestionIndex] and
\* the target input, and suppresses the event's default and propagation;
\* with shift nothing is committed and the event is not suppressed.
EnterCommitsSelection ==
    [][(/\ lastEvent'.type = "keydown"
        /\ lastEvent'.key \in {KEY.ENTER, KEY.TAB}
        /\ mounted
        /\ suggestions # <<>>) =>
          IF ~lastEvent'.shiftKey
          THEN /\ lastEvent'.validated =
                     <<[data |-> At(suggestions, selectedSuggestionIndex),
                        element |-> "input"]>>
               /\ lastEvent'.defaultPrevented
               /\ lastEvent'.propagationStopped
               /\ UNCHANGED <<suggestions, selectedSuggestionIndex>>
          ELSE /\ lastEvent'.validated = <<>>
               /\ ~lastEvent'.defaultPrevented
               /\ ~lastEvent'.propagationStopped
      ]_vars

\* C11: with the list shown, ArrowUp moves the selection index by +1 and
\* ArrowDown by -1, each by exactly one step unless the index is already at
\* the bound in that direction, where it stays; both suppress the event's
\* default and propagation; a key other than ArrowUp, ArrowDown, Enter and
\* Tab leaves the index unchanged and the event unsuppressed.
ArrowKeysMoveSelection ==
    [][(/\ lastEvent'.type = "keydown"
        /\ mounted
        /\ suggestions # <<>>) =>
          /\ lastEvent'.key = KEY.ARROW_UP =>
                /\ selectedSuggestionIndex' =
                       IF selectedSuggestionIndex < Len(suggestions) - 1
                       THEN selectedSuggestionIndex + 1
                       ELSE selectedSuggestionIndex
                /\ lastEvent'.defaultPrevented
                /\ lastEvent'.propagationStopped
          /\ lastEvent'.key = KEY.ARROW_DOWN =>
                /\ selectedSuggestionIndex' =
                       IF selectedSuggestionIndex > 0
                       THEN selectedSuggestionIndex - 1
                       ELSE selectedSuggestionIndex
                /\ lastEvent'.defaultPrevented
                /\ lastEvent'.propagationStopped
          /\ lastEvent'.key \notin {KEY.ARROW_UP, KEY.ARROW_DOWN, KEY.ENTER, KEY.TAB} =>
                /\ selectedSuggestionIndex' = selectedSuggestionIndex
                /\ ~lastEvent'.defaultPrevented
                /\ ~lastEvent'.propagationStopped
                /\ lastEvent'.validated = <<>>
      ]_vars

\* C12: at most one keydown handler of the component is attached to the
\* target input at any time, a handler is attached only while the
\* suggestions list is not empty, and none is attached once the component
\* has been removed and its cleanup has run.
NoDanglingKeyHandlers ==
    /\ Len(listeners) <= 1
    /\ (mounted /\ listeners # <<>>) => suggestions # <<>>
    /\ (~mounted /\ ~effectPending) => listeners = <<>>

-----------------------------------------------------------------------------
(* Properties of the conversations sidebar *)

\* the positions of a call in the external calls of an event
Positions(made, name) == {i \in DOMAIN made : made[i] = name}

\* the number of calls of name among the first i - 1 external calls of an event
Before(made, name, i) == Cardinality({k \in Positions(made, name) : k < i})

\* C14 as stated: a subscription to the folder-expand event exists only
\* while the component is mounted with an active conversation, and none
\* remains after unmount.
FolderSubscriptionOnlyWhileActive ==
    /\ subscriptions.amplify # <<>> => (sidebarMounted /\ activeConversation # 0)
    /\ ~sidebarMounted => subscriptions.amplify = <<>>

\* C14 (amended): the folder-expand subscription is scoped to the component
\* lifetime: at most one subscription of the component exists at any time;
\* the component subscribes only when it holds no subscription and
\* unsubscribes only when it holds one, so that every subscribe is matched
\* by an unsubscribe before the next subscribe; and once the component has rendered the current
\* active conversation and React has run the EXPAND_FOLDER effect or cleanup
\* that is pending, a subscription exists exactly while the component is
\* mounted with an active conversation, and none remains after unmount.
FolderSubscriptionScoped ==
    /\ [](/\ Len(subscriptions.amplify) <= 1
          /\ subscriptions.amplify # <<>> => folderEffect = "unsubscribe"
          /\ (sidebarMounted /\ ~renderPending /\ "folder" \notin pendingEffects) =>
                (subscriptions.amplify # <<>> <=> activeConversation # 0)
          /\ (~sidebarMounted /\ "folder" \notin pendingEffects) =>
                (subscriptions.amplify = <<>> /\ folderEffect = "none"))
    /\ [][LET made == sidebarEvent'.calls
              held == IF subscriptions.amplify # <<>> THEN 1 ELSE 0
          IN \A i \in DOMAIN made :
                /\ made[i] = "subscribe" =>
                      held + Before(made, "subscribe", i) = Before(made, "unsubscribe", i)
                /\ made[i] = "unsubscribe" =>
                      held + Before(made, "subscribe", i) =
                          Before(made, "unsubscribe", i) + 1
         ]_vars

\* the active conversation has changed from one conversation to another and
\* the effects of the render that followed have run: the sidebar has
\* unsubscribed and then subscribed again
FolderSubscriptionScopedWitness ==
    /\ sidebarMounted
    /\ sidebarEvent.op = "flush"
    /\ \E i, j \in DOMAIN sidebarEvent.calls :
          /\ i < j
          /\ sidebarEvent.calls[i] = "unsubscribe"
          /\ sidebarEvent.calls[j] = "subscribe"
    /\ subscriptions.amplify = <<"openFolder">>
    /\ ~renderPending
    /\ activeConversation # 0

\* C15 as stated: while the sidebar is mounted the saved VIEW_FOLDERS
\* preference equals (current tab is FOLDER).
PreferenceAlwaysFollowsTab ==
    sidebarMounted =>
        viewFolders = IF currentTab = SidebarTabs.FOLDER THEN True ELSE False

\* C15 (amended): once React has run the savePreference effect of the last
\* render, the saved VIEW_FOLDERS preference equals (current tab is FOLDER),
\* after the mount and after any sequence of tab changes; a newly mounted
\* sidebar starts on FOLDER if the saved preference is true and on RECENT
\* otherwise.
PreferenceFollowsTab ==
    /\ []((sidebarMounted /\ "savePreference" \notin pendingEffects) =>
             viewFolders = IF currentTab = SidebarTabs.FOLDER THEN True ELSE False)
    /\ [][sidebarEvent'.op = "mount" =>
             currentTab' = IF viewFolders = True
                           THEN SidebarTabs.FOLDER ELSE SidebarTabs.RECENT]_vars

\* the FOLDER tab was chosen from another tab and the effect of the render
\* has run: the saved preference is true
PreferenceFollowsTabWitness ==
    /\ sidebarMounted
    /\ sidebarEvent.op = "changeTab"
    /\ sidebarEvent.tab = SidebarTabs.FOLDER
    /\ Positions(sidebarEvent.calls, "savePreference") # {}
    /\ pendingEffects = {}
    /\ currentTab = SidebarTabs.FOLDER
    /\ viewFolders = True

\* the calls of onExitPreferences
ExitCalls == {"setCurrentView", "switchList", "switchContent"}

\* C17: changeTab(nextTab) always sets the filter to the empty string and
\* the current tab to nextTab; it calls updateArchivedConversations (once)
\* exactly when nextTab is ARCHIVES, and it does the exit-preferences
\* navigation - switchList to CONVERSATIONS, switchContent to CONVERSATION,
\* view to LEFT_SIDEBAR - exactly when nextTab is not PREFERENCES.
ChangeTabResetsAndDelegates ==
    [][sidebarEvent'.op = "changeTab" =>
          LET nextTab == sidebarEvent'.tab
              made    == sidebarEvent'.calls
          IN /\ conversationsFilter' = ""
             /\ currentTab' = nextTab
             /\ Cardinality(Positions(made, "updateArchivedConversations")) =
                    IF nextTab = SidebarTabs.ARCHIVES THEN 1 ELSE 0
             /\ IF nextTab # SidebarTabs.PREFERENCES
                THEN /\ \A c \in ExitCalls : Cardinality(Positions(made, c)) = 1
                     /\ listState' = ListState.CONVERSATIONS
                     /\ contentState' = ContentState.CONVERSATION
                     /\ currentView' = ViewType.LEFT_SIDEBAR
                ELSE /\ \A c \in ExitCalls : Positions(made, c) = {}
                     /\ UNCHANGED <<listState, contentState, currentView>>
      ]_vars

\* changeTab(ARCHIVES) has run with a filter typed in: the filter is empty,
\* the archived conversations were updated and the navigation was delegated
ChangeTabResetsAndDelegatesWitness ==
    /\ sidebarMounted
    /\ sidebarEvent.op = "changeTab"
    /\ sidebarEvent.tab = SidebarTabs.ARCHIVES
    /\ SubSeq(sidebarEvent.calls, 1, 4) =
           <<"updateArchivedConversations", "setCurrentView",
             "switchList", "switchContent">>
    /\ currentTab = SidebarTabs.ARCHIVES
    /\ conversationsFilter = ""
    /\ listState = ListState.CONVERSATIONS

====
